---- MODULE Spec2Model ----
(***************************************************************************)
(* Model of global-mock-inject.js: one tab that includes the script, the   *)
(* origin's localStorage (written by the control surface or any other     *)
(* context, never by the script itself), the tab's event loop (storage     *)
(* events, 100 ms timers, media-load promises) and the page's calls of     *)
(* navigator.mediaDevices.getUserMedia.                                    *)
(*                                                                         *)
(* Tabs interact only through localStorage and the script only reads it,   *)
(* so one tab under an arbitrary writer stands for every tab.              *)
(***************************************************************************)
EXTENDS Naturals, Sequences, FiniteSets

\* ------------------------------------------------------------------ bounds
MaxWrites == 2      \* writes to localStorage by other contexts
MaxCalls  == 2      \* getUserMedia calls that are served a cloned stream
MaxSaved  == 1      \* wrapper references a caller keeps
MaxStack  == 3      \* call depth at which the engine raises RangeError

\* ------------------------------------------------------------------ values
\* localStorage.getItem returns null for an absent key
NULL == "<null>"

FlagKey == "globalMockCameraActive"
DataKey == "globalMockCameraData"
NullKey == "<clear>"       \* the key of the event localStorage.clear() raises

ImageJSON   == "{\"type\":\"image\",\"data\":\"data:image/png;base64,iVBORw0KGgo=\"}"
VideoJSON   == "{\"type\":\"video\",\"data\":\"data:video/mp4;base64,AAAAIGZ0eXA=\"}"
AudioJSON   == "{\"type\":\"audio\",\"data\":\"x\"}"
BadImgJSON  == "{\"type\":\"image\",\"data\":\"data:video/mp4;base64,AAAAIGZ0eXA=\"}"
NullJSON    == "null"
CorruptJSON == "{\"type\":\"image\","

FlagValues == {NULL, "true", "false"}
DataValues == {NULL, "", CorruptJSON, NullJSON, ImageJSON, VideoJSON, AudioJSON, BadImgJSON}

Constraints == {"{video:true}", "{video:true,audio:true}"}

\* A parsed JSON value: kind "object" carries type and data, kind "null" is null.
JSNull == [kind |-> "null", type |-> "", data |-> ""]
Obj(t, d) == [kind |-> "object", type |-> t, data |-> d]

\* JSON.parse: [threw |-> TRUE] for a SyntaxError, the value otherwise
JSONparse(s) ==
    CASE s = ImageJSON  -> [threw |-> FALSE, val |-> Obj("image", "data:image/png;base64,iVBORw0KGgo=")]
      [] s = VideoJSON  -> [threw |-> FALSE, val |-> Obj("video", "data:video/mp4;base64,AAAAIGZ0eXA=")]
      [] s = AudioJSON  -> [threw |-> FALSE, val |-> Obj("audio", "x")]
      [] s = BadImgJSON -> [threw |-> FALSE, val |-> Obj("image", "data:video/mp4;base64,AAAAIGZ0eXA=")]
      [] s = NullJSON   -> [threw |-> FALSE, val |-> JSNull]
      [] OTHER          -> [threw |-> TRUE,  val |-> JSNull]

\* what the browser's decoders make of a data URI
MediaKind(uri) ==
    CASE uri = "data:image/png;base64,iVBORw0KGgo=" -> "image"
      [] uri = "data:video/mp4;base64,AAAAIGZ0eXA=" -> "video"
      [] OTHER -> "none"

\* a function value: the native getUserMedia, or the wrapper created by the
\* id-th run of overrideGetUserMedia; binds counts the .bind() layers around it
NoFn == [base |-> "null", id |-> 0, binds |-> 0]
Native == [base |-> "native", id |-> 0, binds |-> 0]
Wrapper(k) == [base |-> "wrapper", id |-> k, binds |-> 0]
Bind(f) == [f EXCEPT !.binds = @ + 1]

\* the result record of a step that is no getUserMedia call
NoCall == [fn |-> NoFn, viaNav |-> FALSE, constraints |-> "", outcome |-> "none",
           nativeCalls |-> 0, nativeArgs |-> "", stream |-> 0,
           storeActive |-> FALSE, afterEv |-> "none", afterMocking |-> FALSE]

VARIABLES
    flag,                  \* localStorage['globalMockCameraActive']
    data,                  \* localStorage['globalMockCameraData']
    writes,                \* writes made so far
    phase,                 \* "unloaded" until the script has run in the tab
    hasGUM,                \* navigator.mediaDevices.getUserMedia exists
    domPending,            \* DOMContentLoaded has not fired yet
    timers,                \* pending setTimeout(..., 100) callbacks, in order
    pending,               \* unsettled createMockStreamFromData promises: the descriptor
                           \* and the timer whose initializeMockCamera made it
    queue,                 \* storage events delivered to the tab, not yet handled
    mockStream,            \* 0 for null, else index into streams
    isMockActive,
    originalGetUserMedia,
    gum,                   \* navigator.mediaDevices.getUserMedia
    installs,              \* wrappers created so far
    streams,               \* every MediaStream created: its track ids
    tracks,                \* every MediaStreamTrack created
    video,                 \* per stream: the hidden <video> feeding it and its drawFrame loop
    pageInits,             \* timers the page-load code has set
    saved,                 \* wrapper references kept by callers
    calls,                 \* calls served a cloned stream so far
    uncaught,              \* an exception escaped a handler of the script
    last                   \* the step just taken: its kind, the tab's state before
                           \* it and, for a getUserMedia call, the call's result

vars == <<flag, data, writes, phase, hasGUM, domPending, timers, pending, queue,
          mockStream, isMockActive, originalGetUserMedia, gum, installs, streams,
          tracks, video, pageInits, saved, calls, uncaught, last>>

storeVars == <<flag, data, writes>>
tabVars   == <<mockStream, isMockActive, originalGetUserMedia, gum, installs>>
mediaVars == <<streams, tracks, video>>

\* ------------------------------------------------------------------ the script's functions

Truthy(s) == s # NULL /\ s # ""

\* checkMockCameraStatus() without its try/catch: the parse error escapes
checkMockCameraStatus_NoTry(f, d) ==
    LET isActive == (f = "true")
        parsed   == JSONparse(d)
    IN  IF isActive /\ Truthy(d)
        THEN IF parsed.threw \/ parsed.val.kind = "null"
             THEN [active |-> FALSE, data |-> JSNull, threw |-> TRUE]
             ELSE [active |-> TRUE, data |-> parsed.val, threw |-> FALSE]
        ELSE [active |-> FALSE, data |-> JSNull, threw |-> FALSE]

\* checkMockCameraStatus(): JSON.parse and the read of data.type are inside
\* the try block, so a SyntaxError or a TypeError on null ends in the catch
checkMockCameraStatus(f, d) ==
    LET isActive == (f = "true")
        parsed   == JSONparse(d)
    IN  IF isActive /\ Truthy(d)
        THEN IF parsed.threw \/ parsed.val.kind = "null"
             THEN [active |-> FALSE, data |-> JSNull, threw |-> FALSE]
             ELSE [active |-> TRUE, data |-> parsed.val, threw |-> FALSE]
        ELSE [active |-> FALSE, data |-> JSNull, threw |-> FALSE]

\* createImageStreamFromData: img.onload resolves, img.onerror rejects, both
\* in a later task
createImageStreamFromData(dataUrl) ==
    [settles |-> IF MediaKind(dataUrl) = "image" THEN "resolve" ELSE "reject",
     later   |-> TRUE]

\* createVideoStreamFromData: video.onloadeddata then play() resolves,
\* video.onerror rejects, both in a later task
createVideoStreamFromData(dataUrl) ==
    [settles |-> IF MediaKind(dataUrl) = "video" THEN "resolve" ELSE "reject",
     later   |-> TRUE]

\* createMockStreamFromData: how the returned promise settles; for an
\* unsupported type it is rejected inside the executor, so the catch-handler
\* runs before the calling task ends
createMockStreamFromData(mockData) ==
    IF mockData.type = "video" THEN createVideoStreamFromData(mockData.data)
    ELSE IF mockData.type = "image" THEN createImageStreamFromData(mockData.data)
    ELSE [settles |-> "reject", later |-> FALSE]

\* the store holds a true flag and a descriptor that synthesizes
StoreActive ==
    LET st == checkMockCameraStatus(flag, data)
    IN  st.active /\ createMockStreamFromData(st.data).settles = "resolve"

Mocking == isMockActive /\ mockStream # 0

RECURSIVE Invoke(_, _)
\* a call of function value f: the wrapper's body reads the module variables
\* at the time of the call; binding does not change what a function does
Invoke(f, fuel) ==
    IF f.base = "native"
    THEN [outcome |-> "native", nativeCalls |-> 1]
    ELSE IF isMockActive /\ mockStream # 0
    THEN [outcome |-> "mock", nativeCalls |-> 0]
    ELSE IF originalGetUserMedia = NoFn
    THEN [outcome |-> "TypeError", nativeCalls |-> 0]
    ELSE IF fuel = 0
    THEN [outcome |-> "RangeError", nativeCalls |-> 0]
    ELSE Invoke(originalGetUserMedia, fuel - 1)

\* track.clone(): a new track with the readyState of its source
CloneTrack(k) == [kind |-> "clone", src |-> k, live |-> tracks[k].live]

\* clonedStream.addTrack(track) without the clone: the stream shares the tracks
CloneIds_Shared(s) == streams[s].tracks

\* the ids of the tracks added to clonedStream: the clones of stream s's tracks
CloneIds(s) == [i \in 1..Len(streams[s].tracks) |-> Len(tracks) + i]

\* the tab's state as the script's variables and the entry point show it
TabState == [mockStream |-> mockStream, isMockActive |-> isMockActive,
             originalGetUserMedia |-> originalGetUserMedia, gum |-> gum,
             pending |-> pending, timers |-> timers]

Step(ev, origin) == [ev |-> ev, origin |-> origin, pre |-> TabState, mocking |-> Mocking,
                     failed |-> FALSE, stopped |-> {}, after |-> "", value |-> "",
                     call |-> NoCall]

\* a stream that no <video> element feeds (an image's canvas, a clone)
NoVideo == [paused |-> TRUE, ended |-> FALSE, raf |-> FALSE, tick |-> 0]

\* createVideoStreamFromData at the time its promise resolves: the looping,
\* muted video plays and drawFrame() has drawn once and asked for the next
\* animation frame
PlayingVideo == [paused |-> FALSE, ended |-> FALSE, raf |-> TRUE, tick |-> 0]

\* drawFrame(): draws and requests the next frame while the video is neither
\* paused nor ended, and lets the loop end otherwise
drawFrame(v) ==
    IF ~v.paused /\ ~v.ended
    THEN [v EXCEPT !.tick = 1 - @, !.raf = TRUE]
    ELSE [v EXCEPT !.raf = FALSE]

\* mockStream.getTracks().forEach(track => track.stop())
StopAll_None(s) == tracks

\* a deactivation that stops the tracks of every stream made from stream s too
StopAll_WithClones(s) == [k \in 1..Len(tracks) |-> [tracks[k] EXCEPT !.live = FALSE]]

\* mockStream.getTracks().forEach(track => track.stop()) for stream s
StopAll(s) == [k \in 1..Len(tracks) |->
                 IF \E i \in 1..Len(streams[s].tracks) : streams[s].tracks[i] = k
                 THEN [tracks[k] EXCEPT !.live = FALSE] ELSE tracks[k]]

\* ------------------------------------------------------------------ initial state
Init ==
    /\ flag \in FlagValues
    /\ data \in DataValues
    /\ writes = 0
    /\ phase = "unloaded"
    /\ hasGUM \in BOOLEAN
    /\ domPending = TRUE
    /\ timers = <<>>
    /\ pending = <<>>
    /\ queue = <<>>
    /\ mockStream = 0
    /\ isMockActive = FALSE
    /\ originalGetUserMedia = NoFn
    /\ gum = Native
    /\ installs = 0
    /\ streams = <<>>
    /\ tracks = <<>>
    /\ video = <<>>
    /\ pageInits = 0
    /\ saved = {}
    /\ calls = 0
    /\ uncaught = FALSE
    /\ last = [ev |-> "none", origin |-> "", pre |-> TabState, mocking |-> FALSE,
               failed |-> FALSE, stopped |-> {}, after |-> "", value |-> "",
               call |-> NoCall]

\* ------------------------------------------------------------------ other contexts
\* localStorage.setItem / removeItem in another context: a storage event is
\* raised in this tab only when the value changes and the script is listening
Write(k, v) ==
    /\ writes < MaxWrites
    /\ IF k = FlagKey THEN v # flag ELSE v # data
    /\ writes' = writes + 1
    /\ flag' = IF k = FlagKey THEN v ELSE flag
    /\ data' = IF k = DataKey THEN v ELSE data
    /\ queue' = IF phase = "loaded"
                THEN Append(queue, [key |-> k, newValue |-> v]) ELSE queue
    /\ last' = Step("write", "")
    /\ UNCHANGED <<phase, hasGUM, domPending, timers, pending, tabVars, mediaVars,
                   pageInits, saved, calls, uncaught>>

WriteFlag == \E v \in FlagValues : Write(FlagKey, v)
WriteData == \E v \in DataValues : Write(DataKey, v)

\* localStorage.clear() in another context: one event with a null key
Clear ==
    /\ writes < MaxWrites
    /\ flag # NULL \/ data # NULL
    /\ writes' = writes + 1
    /\ flag' = NULL
    /\ data' = NULL
    /\ queue' = IF phase = "loaded"
                THEN Append(queue, [key |-> NullKey, newValue |-> NULL]) ELSE queue
    /\ last' = Step("write", "")
    /\ UNCHANGED <<phase, hasGUM, domPending, timers, pending, tabVars, mediaVars,
                   pageInits, saved, calls, uncaught>>

\* ------------------------------------------------------------------ the script
\* the script's top-level code: the listeners are registered, and a timer is
\* set at once unless document.readyState is "loading"
ScriptLoad(readyState, domFired) ==
    /\ phase = "unloaded"
    /\ readyState = "loading" => ~domFired
    /\ readyState = "complete" => domFired
    /\ phase' = "loaded"
    /\ domPending' = ~domFired
    /\ timers' = IF readyState = "loading" THEN timers ELSE Append(timers, "load")
    /\ pageInits' = IF readyState = "loading" THEN pageInits ELSE pageInits + 1
    /\ last' = Step("load", readyState)
    /\ UNCHANGED <<storeVars, hasGUM, pending, queue, tabVars, mediaVars, saved,
                   calls, uncaught>>

Load == \E rs \in {"loading", "interactive", "complete"}, df \in BOOLEAN : ScriptLoad(rs, df)

\* the DOMContentLoaded listener
DOMContentLoaded ==
    /\ phase = "loaded"
    /\ domPending
    /\ domPending' = FALSE
    /\ timers' = Append(timers, "dcl")
    /\ pageInits' = pageInits + 1
    /\ last' = Step("dcl", "")
    /\ UNCHANGED <<storeVars, phase, hasGUM, pending, queue, tabVars, mediaVars,
                   saved, calls, uncaught>>

\* initializeMockCamera() calling overrideGetUserMedia() before it checks the store
initializeMockCamera_InstallFirst(f, d) ==
    LET status == checkMockCameraStatus(f, d)
        starts == status.active /\ status.data.kind # "null"
        p      == createMockStreamFromData(status.data)
    IN  [started |-> IF starts /\ p.later THEN <<status.data>> ELSE <<>>,
         failed  |-> starts /\ ~p.later /\ p.settles = "reject",
         install |-> TRUE,
         threw   |-> status.threw]

\* an initializeMockCamera() that takes the flag to be "true", as the
\* notification that scheduled it said, and reads only the descriptor
initializeMockCamera_TrustNotification(f, d) ==
    LET status == checkMockCameraStatus("true", d)
        starts == status.active /\ status.data.kind # "null"
        p      == createMockStreamFromData(status.data)
    IN  [started |-> IF starts /\ p.later THEN <<status.data>> ELSE <<>>,
         failed  |-> starts /\ ~p.later /\ p.settles = "reject",
         install |-> FALSE,
         threw   |-> status.threw]

\* initializeMockCamera(): the descriptors whose synthesis it leaves pending,
\* whether its catch-handler has run already, whether it installs the
\* override itself, and whether an exception escapes it
initializeMockCamera(f, d) ==
    LET status == checkMockCameraStatus(f, d)
        starts == status.active /\ status.data.kind # "null"
        p      == createMockStreamFromData(status.data)
    IN  [started |-> IF starts /\ p.later THEN <<status.data>> ELSE <<>>,
         failed  |-> starts /\ ~p.later /\ p.settles = "reject",
         install |-> FALSE,
         threw   |-> status.threw]

\* overrideGetUserMedia(): the new originalGetUserMedia and entry point
overrideGetUserMedia ==
    IF hasGUM
    THEN [originalGetUserMedia |-> Bind(gum), gum |-> Wrapper(installs + 1),
          installs |-> installs + 1]
    ELSE [originalGetUserMedia |-> originalGetUserMedia, gum |-> gum,
          installs |-> installs]

\* a restore that puts the captured function back and keeps the reference
restoreGetUserMedia_KeepOriginal ==
    IF originalGetUserMedia # NoFn
    THEN [originalGetUserMedia |-> originalGetUserMedia, gum |-> originalGetUserMedia]
    ELSE [originalGetUserMedia |-> originalGetUserMedia, gum |-> gum]

\* restoreGetUserMedia(): the new originalGetUserMedia and entry point
restoreGetUserMedia ==
    IF originalGetUserMedia # NoFn
    THEN [originalGetUserMedia |-> NoFn, gum |-> originalGetUserMedia]
    ELSE [originalGetUserMedia |-> originalGetUserMedia, gum |-> gum]

\* a 100 ms timer fires: initializeMockCamera()
TimerFire ==
    /\ timers # <<>>
    /\ LET r == initializeMockCamera(flag, data)
           o == overrideGetUserMedia
       IN  /\ pending' = pending \o [i \in 1..Len(r.started) |->
                                        [desc |-> r.started[i], by |-> Head(timers)]]
           /\ uncaught' = (uncaught \/ r.threw)
           /\ IF r.install
              THEN /\ originalGetUserMedia' = o.originalGetUserMedia
                   /\ gum' = o.gum
                   /\ installs' = o.installs
              ELSE UNCHANGED <<originalGetUserMedia, gum, installs>>
    /\ timers' = Tail(timers)
    /\ last' = [Step("timer", Head(timers)) EXCEPT
                   !.failed = initializeMockCamera(flag, data).failed]
    /\ UNCHANGED <<storeVars, phase, hasGUM, domPending, queue, mockStream,
                   isMockActive, mediaVars, pageInits, saved, calls>>

Without(seq, i) == [j \in 1..(Len(seq) - 1) |-> IF j < i THEN seq[j] ELSE seq[j + 1]]

\* the then-handler of initializeMockCamera: the stream of canvas.captureStream(30)
\* is stored and the override installed
SynthResolve(i) ==
    /\ i \in 1..Len(pending)
    /\ createMockStreamFromData(pending[i].desc).settles = "resolve"
    /\ LET o == overrideGetUserMedia
       IN  /\ tracks' = Append(tracks, [kind |-> "canvas", src |-> 0, live |-> TRUE])
           /\ streams' = Append(streams, [origin |-> pending[i].desc.type,
                                          tracks |-> <<Len(tracks) + 1>>])
           /\ video' = Append(video, IF pending[i].desc.type = "video"
                                      THEN PlayingVideo ELSE NoVideo)
           /\ mockStream' = Len(streams) + 1
           /\ isMockActive' = TRUE
           /\ originalGetUserMedia' = o.originalGetUserMedia
           /\ gum' = o.gum
           /\ installs' = o.installs
    /\ pending' = Without(pending, i)
    /\ last' = Step("resolve", pending[i].by)
    /\ UNCHANGED <<storeVars, phase, hasGUM, domPending, timers, queue, pageInits,
                   saved, calls, uncaught>>

\* the catch-handler of initializeMockCamera: the error is logged
SynthReject(i) ==
    /\ i \in 1..Len(pending)
    /\ createMockStreamFromData(pending[i].desc).settles = "reject"
    /\ pending' = Without(pending, i)
    /\ last' = [Step("reject", pending[i].by) EXCEPT !.failed = TRUE]
    /\ UNCHANGED <<storeVars, phase, hasGUM, domPending, timers, queue, tabVars,
                   mediaVars, pageInits, saved, calls, uncaught>>

Resolve == \E i \in 1..Len(pending) : SynthResolve(i)
Reject  == \E i \in 1..Len(pending) : SynthReject(i)

\* the test written e.newValue === true, which no string passes
ActivatesOn_Boolean(newValue) == newValue = "true" /\ newValue = NULL

\* the listener's test e.newValue === 'true'
ActivatesOn(newValue) == newValue = "true"

\* a listener that takes every notification for one about the flag
IsFlagKey_AnyKey(key) == TRUE

\* the listener's test e.key === 'globalMockCameraActive'
IsFlagKey(key) == key = FlagKey

\* the storage listener
StorageEvent ==
    /\ queue # <<>>
    /\ LET e == Head(queue)
           r == restoreGetUserMedia
       IN  IF IsFlagKey(e.key)
           THEN IF ActivatesOn(e.newValue)
                THEN /\ timers' = Append(timers, "storage")
                     /\ last' = [Step("activate", e.key) EXCEPT !.value = e.newValue]
                     /\ UNCHANGED <<tabVars, mediaVars>>
                ELSE /\ tracks' = IF mockStream # 0 THEN StopAll(mockStream) ELSE tracks
                     /\ mockStream' = 0
                     /\ isMockActive' = FALSE
                     /\ originalGetUserMedia' = r.originalGetUserMedia
                     /\ gum' = r.gum
                     /\ last' = [Step("deactivate", e.key) EXCEPT
                                    !.after = last.ev,
                                    !.value = e.newValue,
                                    !.stopped = {k \in 1..Len(tracks) :
                                                   tracks[k].live /\ ~tracks'[k].live}]
                     /\ UNCHANGED <<timers, installs, streams, video>>
           ELSE /\ last' = Step("ignore", e.key)
                /\ UNCHANGED <<timers, tabVars, mediaVars>>
    /\ queue' = Tail(queue)
    /\ UNCHANGED <<storeVars, phase, hasGUM, domPending, pending, pageInits, saved,
                   calls, uncaught>>

\* ------------------------------------------------------------------ the page
\* the page calls a getUserMedia function value with constraints c
CallFn(f, c, viaNav) ==
    /\ phase = "loaded"
    /\ hasGUM
    /\ LET r == Invoke(f, MaxStack)
       IN  /\ IF r.outcome = "mock"
              THEN /\ calls < MaxCalls
                   /\ calls' = calls + 1
                   /\ tracks' = tracks \o
                        [i \in 1..Len(streams[mockStream].tracks) |->
                            CloneTrack(streams[mockStream].tracks[i])]
                   /\ streams' = Append(streams, [origin |-> "clone",
                                                  tracks |-> CloneIds(mockStream)])
                   /\ video' = Append(video, NoVideo)
              ELSE UNCHANGED <<calls, tracks, streams, video>>
           /\ last' = [Step("call", "") EXCEPT !.call =
                          [fn |-> f, viaNav |-> viaNav, constraints |-> c,
                           outcome |-> r.outcome, nativeCalls |-> r.nativeCalls,
                           nativeArgs |-> IF r.nativeCalls > 0 THEN c ELSE "",
                           stream |-> IF r.outcome = "mock" THEN Len(streams) + 1 ELSE 0,
                           storeActive |-> StoreActive,
                           afterEv |-> last.ev, afterMocking |-> last.mocking]]
    /\ UNCHANGED <<storeVars, phase, hasGUM, domPending, timers, pending, queue,
                   tabVars, pageInits, saved, uncaught>>

\* navigator.mediaDevices.getUserMedia(c)
CallGetUserMedia == \E c \in Constraints : CallFn(gum, c, TRUE)

\* a call through a reference to the wrapper taken earlier
CallSaved == \E f \in saved, c \in Constraints : CallFn(f, c, FALSE)

\* the page keeps a reference to the installed wrapper
SaveRef ==
    /\ phase = "loaded"
    /\ gum.base = "wrapper"
    /\ gum \notin saved
    /\ Cardinality(saved) < MaxSaved
    /\ saved' = saved \cup {gum}
    /\ last' = Step("save", "")
    /\ UNCHANGED <<storeVars, phase, hasGUM, domPending, timers, pending, queue,
                   tabVars, mediaVars, pageInits, calls, uncaught>>

\* a caller stops a track of a stream it was handed
StopTrack ==
    \E s \in 1..Len(streams), i \in 1..Len(tracks) :
      LET k == streams[s].tracks[IF i \in 1..Len(streams[s].tracks) THEN i ELSE 1]
      IN  /\ streams[s].origin = "clone"
          /\ i \in 1..Len(streams[s].tracks)
          /\ tracks[k].live
          /\ tracks' = [tracks EXCEPT ![k].live = FALSE]
          /\ last' = Step("stop", "")
          /\ UNCHANGED <<storeVars, phase, hasGUM, domPending, timers, pending, queue,
                         tabVars, streams, video, pageInits, saved, calls, uncaught>>

\* an animation frame: the drawFrame callback of a video stream's loop runs
DrawFrame ==
    \E s \in 1..Len(video) :
        /\ video[s].raf
        /\ video' = [video EXCEPT ![s] = drawFrame(video[s])]
        /\ last' = Step("frame", "")
        /\ UNCHANGED <<storeVars, phase, hasGUM, domPending, timers, pending, queue,
                       tabVars, streams, tracks, pageInits, saved, calls, uncaught>>

Next ==
    \/ WriteFlag
    \/ WriteData
    \/ Clear
    \/ Load
    \/ DOMContentLoaded
    \/ TimerFire
    \/ Resolve
    \/ Reject
    \/ StorageEvent
    \/ CallGetUserMedia
    \/ CallSaved
    \/ SaveRef
    \/ StopTrack

\* the tab between animation frames: drawFrame writes only the canvas and its
\* own next request, which no other code of the script reads
Spec == Init /\ [][Next]_vars

\* the store and the tab's event loop and animation frames, without the
\* page's own calls (which change nothing the script reads)
LiveNext ==
    \/ WriteFlag
    \/ WriteData
    \/ Clear
    \/ Load
    \/ DOMContentLoaded
    \/ TimerFire
    \/ Resolve
    \/ Reject
    \/ StorageEvent
    \/ DrawFrame

\* the event loop runs every queued task: storage events are dispatched,
\* timers fire, DOMContentLoaded fires, media loads settle and requested
\* animation frames come
LiveSpec ==
    /\ Init
    /\ [][LiveNext]_vars
    /\ WF_vars(StorageEvent)
    /\ WF_vars(DOMContentLoaded)
    /\ WF_vars(TimerFire)
    /\ WF_vars(Resolve)
    /\ WF_vars(Reject)
    /\ WF_vars(DrawFrame)

\* ------------------------------------------------------------------ state predicates
Passthrough == ~isMockActive /\ mockStream = 0

\* nothing of the tab is in flight
Quiescent ==
    /\ phase = "loaded"
    /\ ~domPending
    /\ queue = <<>>
    /\ timers = <<>>
    /\ pending = <<>>

TrackSet(s) == {streams[s].tracks[i] : i \in 1..Len(streams[s].tracks)}

\* ------------------------------------------------------------------ claims

\* C1: a second run of overrideGetUserMedia does not capture the installed
\* wrapper as originalGetUserMedia, and once restoreGetUserMedia has run the
\* entry point is the native function again, not a wrapper.
C1_InstallIdempotent ==
    /\ originalGetUserMedia # NoFn => originalGetUserMedia.base = "native"
    /\ originalGetUserMedia = NoFn => gum.base = "native"

\* C2: a call of navigator.mediaDevices.getUserMedia made right after the tab,
\* being in Mocking, has handled a flag notification whose new value is not
\* "true" is served by the native entry point.
C2_NativeAfterDeactivate ==
    (/\ last.ev = "call"
     /\ last.call.viaNav
     /\ last.call.afterEv = "deactivate"
     /\ last.call.afterMocking)
    => (last.call.outcome = "native" /\ last.call.nativeCalls = 1)

\* C3: while the store holds a true flag and a valid descriptor, no
\* getUserMedia call in a loaded tab reaches the native entry point.
C3_RealCameraNeverAccessed ==
    (last.ev = "call" /\ last.call.viaNav /\ last.call.storeActive)
    => last.call.nativeCalls = 0

\* C4: in a quiescent tab, when the stored flag is not "true" the tab is in
\* Passthrough and its entry point serves no mock stream.
C4_PassthroughWhenFlagCleared ==
    (hasGUM /\ Quiescent /\ flag # "true")
    => (Passthrough /\ Invoke(gum, MaxStack).outcome # "mock")

\* the tab is in Mocking with the wrapper installed and serves mock streams
Served ==
    /\ Mocking
    /\ gum.base = "wrapper"
    /\ Invoke(gum, MaxStack).outcome = "mock"

\* another context has just changed the flag to "true" with a valid
\* descriptor in the store, and the loaded tab has been sent the notification
JustActivated ==
    /\ phase = "loaded"
    /\ hasGUM
    /\ last.ev = "write"
    /\ queue # <<>>
    /\ queue[Len(queue)] = [key |-> FlagKey, newValue |-> "true"]
    /\ StoreActive

C6_WrapperDelegates ==
    (last.ev = "call" /\ last.call.fn.base = "wrapper" /\ ~last.mocking)
    => (/\ last.call.outcome = "native"
        /\ last.call.nativeCalls = 1
        /\ last.call.nativeArgs = last.call.constraints)

C8_FailedActivationPassthrough ==
    (hasGUM /\ last.failed)
    => (Passthrough /\ ~uncaught /\ Invoke(gum, MaxStack).outcome = "native")

\* C9: when initializeMockCamera runs with the flag "true" and the descriptor
\* absent, empty or not parseable, checkMockCameraStatus reports inactive, no
\* synthesis is started, nothing is thrown, and mockStream, isMockActive,
\* originalGetUserMedia and the entry point are unchanged.
C9_CorruptDescriptorInactive ==
    (/\ last.ev = "timer"
     /\ flag = "true"
     /\ (data \in {NULL, ""} \/ JSONparse(data).threw))
    => (/\ ~checkMockCameraStatus(flag, data).active
        /\ pending = last.pre.pending
        /\ mockStream = last.pre.mockStream
        /\ isMockActive = last.pre.isMockActive
        /\ originalGetUserMedia = last.pre.originalGetUserMedia
        /\ gum = last.pre.gum
        /\ ~uncaught)

\* C9 witness: initialization ran in a Mocking tab with the flag "true" and an
\* unparseable descriptor.
C9_Witness ==
    /\ last.ev = "timer"
    /\ flag = "true"
    /\ data = CorruptJSON
    /\ Mocking

\* C10: a wrapper call made while Mocking returns a new stream of fresh
\* clones of mockStream's tracks, no track is shared between two streams,
\* and whatever callers stop, every track of mockStream stays live, so the
\* stream a call returns has a live track.
C10_CloneIndependence ==
    /\ \A s1, s2 \in 1..Len(streams) : s1 # s2 => TrackSet(s1) \cap TrackSet(s2) = {}
    /\ Mocking => (/\ TrackSet(mockStream) # {}
                   /\ \A k \in TrackSet(mockStream) : tracks[k].live)
    /\ (last.ev = "call" /\ last.call.outcome = "mock") =>
          /\ last.call.stream = Len(streams)
          /\ last.call.stream # mockStream
          /\ TrackSet(last.call.stream) # {}
          /\ \A k \in TrackSet(last.call.stream) :
                /\ tracks[k].kind = "clone"
                /\ tracks[k].src \in TrackSet(mockStream)
                /\ tracks[k].live

\* C10 witness: a second call is served after a caller stopped the track of
\* the first call's stream.
C10_Witness ==
    /\ last.ev = "call"
    /\ last.call.outcome = "mock"
    /\ calls = 2
    /\ \E k \in 1..Len(tracks) : tracks[k].kind = "clone" /\ ~tracks[k].live

\* a stream the tab synthesized from a descriptor (not a clone handed to a caller)
Synthesized(s) == streams[s].origin # "clone"

HasLiveTrack(s) == \E k \in TrackSet(s) : tracks[k].live

\* C11: a synthesized stream is destroyed when a new activation supersedes it:
\* only the stream mockStream points at has live tracks, every other stream
\* the tab synthesized has all its tracks stopped.
C11_SupersededStreamStopped ==
    \A s \in 1..Len(streams) :
        (Synthesized(s) /\ HasLiveTrack(s)) => s = mockStream

\* the last step handled a notification for the flag key whose new value is
\* not the exact string "true"
FlagTurnedOff ==
    /\ last.ev \in {"activate", "deactivate", "ignore"}
    /\ last.origin = FlagKey
    /\ last.value # "true"

\* C12: handling a flag notification whose new value is not "true" stops every
\* track of the stream mockStream held, leaves mockStream null, isMockActive
\* false and originalGetUserMedia null with the captured function put back as
\* the entry point; a second such notification handled right after the first
\* changes nothing and stops nothing, and no exception escapes.
C12_DeactivationCompleteIdempotent ==
    FlagTurnedOff =>
        /\ last.pre.mockStream # 0 =>
               \A k \in TrackSet(last.pre.mockStream) : ~tracks[k].live
        /\ mockStream = 0
        /\ ~isMockActive
        /\ originalGetUserMedia = NoFn
        /\ gum = IF last.pre.originalGetUserMedia # NoFn
                 THEN last.pre.originalGetUserMedia ELSE last.pre.gum
        /\ ~uncaught
        /\ last.after = "deactivate" =>
               /\ mockStream = last.pre.mockStream
               /\ isMockActive = last.pre.isMockActive
               /\ originalGetUserMedia = last.pre.originalGetUserMedia
               /\ gum = last.pre.gum
               /\ pending = last.pre.pending
               /\ timers = last.pre.timers
               /\ last.stopped = {}

\* a Mocking tab with a live stream was deactivated, and a second notification
\* (the flag went from "false" to removed, or back) was handled right after
C12_Witness ==
    /\ FlagTurnedOff
    /\ last.after = "deactivate"
    /\ hasGUM
    /\ gum = Bind(Native)
    /\ \E s \in 1..Len(streams) : Synthesized(s) /\ ~HasLiveTrack(s)

\* some stream has all its tracks stopped while the drawFrame loop that fed it
\* still has a requestAnimationFrame callback pending
StoppedStreamRedrawn ==
    \E s \in 1..Len(video) : video[s].raf /\ ~HasLiveTrack(s)

\* C13: once all tracks of a stream synthesized from a video are stopped, its
\* redraw loop ends: drawFrame eventually stops requesting animation frames,
\* so no loop of a stopped stream keeps running.
C13_RedrawLoopStops == StoppedStreamRedrawn ~> ~StoppedStreamRedrawn

\* C14: the page-load code schedules initializeMockCamera exactly once,
\* whatever document.readyState was when the script ran: never twice, and
\* once DOMContentLoaded has fired, once.
C14_OneCheckPerPageLoad ==
    /\ pageInits <= 1
    /\ (phase = "loaded" /\ ~domPending) => pageInits = 1

\* navigator.mediaDevices.getUserMedia is a wrapper the script made (bound or not)
WrapperInstalled == gum.base = "wrapper"

\* C15: originalGetUserMedia is non-null exactly when the installed entry
\* point is a wrapper of the script: no wrapper is installed while
\* originalGetUserMedia is null, and the native function is not installed
\* while originalGetUserMedia is non-null.
C15_OriginalIffWrapperInstalled ==
    (originalGetUserMedia # NoFn) <=> WrapperInstalled

\* the last step handled a storage notification for another key than the flag's
OtherKeyNotified ==
    /\ last.ev \in {"activate", "deactivate", "ignore"}
    /\ last.origin # FlagKey

\* C16: a storage notification for any key other than globalMockCameraActive
\* (globalMockCameraData, or the null key of clear()) leaves mockStream,
\* isMockActive, originalGetUserMedia, the entry point, the pending timers and
\* the pending syntheses as they were, and stops no track.
C16_OtherKeysIgnored ==
    OtherKeyNotified =>
        /\ mockStream = last.pre.mockStream
        /\ isMockActive = last.pre.isMockActive
        /\ originalGetUserMedia = last.pre.originalGetUserMedia
        /\ gum = last.pre.gum
        /\ timers = last.pre.timers
        /\ pending = last.pre.pending
        /\ last.stopped = {}

\* a Mocking tab handled the notification of clear(), whose key is null
C16_Witness ==
    /\ OtherKeyNotified
    /\ last.origin = NullKey
    /\ Mocking
    /\ HasLiveTrack(mockStream)

\* C17: where navigator.mediaDevices.getUserMedia exists, the three module
\* variables agree between any two handlers: isMockActive is true exactly
\* when mockStream is non-null, exactly when originalGetUserMedia is non-null.
C17_ModuleVariablesAgree ==
    hasGUM =>
        /\ isMockActive <=> (mockStream # 0)
        /\ (mockStream # 0) <=> (originalGetUserMedia # NoFn)

\* the three are back to inactive after an activation and a deactivation,
\* with a synthesis of an earlier timer still to settle
C17_Witness ==
    /\ hasGUM
    /\ last.ev = "deactivate"
    /\ last.mocking
    /\ ~isMockActive /\ mockStream = 0 /\ originalGetUserMedia = NoFn
    /\ pending # <<>>

\* the last step ran the initializeMockCamera that a "true" notification had
\* scheduled, and by then the flag in the store was no longer "true"
StaleActivationRan ==
    /\ last.ev = "timer"
    /\ last.origin = "storage"
    /\ flag # "true"

\* C18 as stated: the delayed run that finds the flag no longer "true" starts
\* no synthesis and leaves the tab in Passthrough with the native entry point.
C18_StaleActivationPassthrough ==
    (StaleActivationRan /\ hasGUM) =>
        /\ pending = last.pre.pending
        /\ Passthrough
        /\ gum.base = "native"

\* C18: the delayed run decides on the store as it is when the run happens:
\* finding the flag no longer "true", it starts no synthesis, no synthesis
\* fails, and mockStream, isMockActive, originalGetUserMedia and the entry
\* point stay as they were before the run.
C18_StaleActivationNoEffect ==
    StaleActivationRan =>
        /\ pending = last.pre.pending
        /\ ~last.failed
        /\ mockStream = last.pre.mockStream
        /\ isMockActive = last.pre.isMockActive
        /\ originalGetUserMedia = last.pre.originalGetUserMedia
        /\ gum = last.pre.gum

\* the stale run happened with a descriptor in the store that would have
\* been synthesized had the flag still been "true"
C18_Witness ==
    /\ StaleActivationRan
    /\ hasGUM
    /\ checkMockCameraStatus("true", data).active
    /\ Passthrough
    /\ gum = Native

\* C19: deactivation stops tracks of the tab's own mockStream only: every
\* track it stops belongs to the stream mockStream held, none is a clone
\* handed to a caller, so every clone keeps the status it had.
C19_DeactivationSparesClones ==
    FlagTurnedOff =>
        /\ \A k \in last.stopped : tracks[k].kind # "clone"
        /\ IF last.pre.mockStream = 0
           THEN last.stopped = {}
           ELSE last.stopped \subseteq TrackSet(last.pre.mockStream)

\* a deactivation stopped the tab's stream while a caller held a live clone
\* and another clone the caller had stopped itself
C19_Witness ==
    /\ FlagTurnedOff
    /\ last.stopped # {}
    /\ \E k \in 1..Len(tracks) : tracks[k].kind = "clone" /\ tracks[k].live
    /\ \E k \in 1..Len(tracks) : tracks[k].kind = "clone" /\ ~tracks[k].live


====
